---- MODULE Spec2Model ----
(***************************************************************************)
(* Session persistence of the benchmark dashboard backend: the file store, *)
(* the MongoDB store, the DualStorage coordinator and the session routes   *)
(* of the HTTP server.                                                     *)
(*                                                                         *)
(* Five specifications:                                                    *)
(*   Spec        the server: every step is one HTTP request on             *)
(*               /api/sessions handled to completion (route handler,       *)
(*               DualStorage, stores).                                     *)
(*   SpecStore   one store object (FileStorage or MongoStorage) on its     *)
(*               own, every step one call of one of its four methods with  *)
(*               an arbitrary session object.                              *)
(*   SpecConc    the server with requests handled concurrently: a step is  *)
(*               what runs between two waits on I/O.                       *)
(*   SpecClient  the page's session management, its requests in flight     *)
(*               and the server, with a clock.                             *)
(*   SpecCmp     the comparison statistics of a custom plot, on the page   *)
(*               and in the PDF export.                                    *)
(***************************************************************************)
EXTENDS Integers, Sequences, FiniteSets, TLC

VARIABLES
    storages,     \* DualStorage.storages: the enabled stores, in priority order
    dataDir,      \* FileStorage.dataDir on disk: file name -> file text
    docs,         \* the documents of the MongoDB collection "sessions"
    client,       \* MongoStorage.client
    collection,   \* MongoStorage.collection
    saved,        \* history: ids saved and not deleted afterwards (SpecStore)
    last,         \* history: the last call or request, its inputs and outcome
    pending,      \* the POST requests being handled (SpecConc)
    written,      \* history: the session each store was last written with (SpecConc)
    arrived,      \* the number of requests received so far (SpecConc)
    now,          \* the clock read by new Date() and Date.now() (SpecClient)
    sessions,     \* App.jsx: the sessions state of the page (SpecClient)
    currentSessionId,  \* App.jsx: the currentSessionId state of the page (SpecClient)
    inflight,     \* the requests the page has sent that the server has not
                  \* handled yet (SpecClient)
    deleted,      \* history: the ids the user deleted on the page and no other
                  \* client has posted since (SpecClient)
    cmp           \* the runs selected for a custom plot and the statistics
                  \* computed from them (SpecCmp)

concVars == <<pending, written, arrived>>
clientVars == <<now, sessions, currentSessionId, inflight, deleted>>

\* the variables Spec and SpecStore leave alone
aux == <<concVars, clientVars, cmp>>

\* the variables SpecConc, and SpecClient, leave alone besides saved and last
besideConc == <<clientVars, cmp>>
besideClient == <<concVars, cmp>>

vars == <<storages, dataDir, docs, client, collection, saved, last, aux>>

----------------------------------------------------------------------------
(* Bounds and value sets *)

NumIds == 1
NumNames == 2
\* the requests the server receives in one run of SpecConc
MaxRequests == 2
\* the instants of the clock in one run of SpecClient
MaxTime == 3
\* the samples of one benchmark run in SpecCmp
MaxPoints == 2

IdPool == <<"s1", "s2", "s3", "s4">>
NamePool == <<"n1", "n2", "n3", "n4">>

\* session ids and names a caller may send
Ids == {IdPool[i] : i \in 1..NumIds}
Names == {NamePool[i] : i \in 1..NumNames}
\* a non-empty runs array
RunsValues == {"r1"}

\* JavaScript undefined and null as property values
Undefined == "undefined"
Null == "null"
\* JavaScript null where a session object is expected
NullResult == [null |-> TRUE]

\* o[k] in JavaScript: undefined when the object has no such key
Get(o, k) == IF k \in DOMAIN o THEN o[k] ELSE Undefined

\* the settled state of a promise
Fulfilled(v) == [status |-> "fulfilled", value |-> v]
Rejected(e) == [status |-> "rejected", reason |-> e]

\* the session objects a caller may hand to a store: id and name, and
\* optionally runs (present with a value, present but undefined, or no key)
SessionObjects ==
    LET base == [id : Ids, name : Names]
    IN  base \cup {b @@ [runs |-> r] : b \in base, r \in RunsValues \cup {Undefined}}

----------------------------------------------------------------------------
(* JSON and BSON *)

\* JSON.stringify(o): keys whose value is undefined are left out of the text
JSONStringify(o) ==
    [parses |-> TRUE, value |-> [k \in {j \in DOMAIN o : o[j] # Undefined} |-> o[k]]]

\* a text JSON.parse throws on
Garbage == [parses |-> FALSE]

\* JSON.parse(text) of a text that parses
JSONParse(text) == text.value

\* the serializer with ignoreUndefined set: undefined fields are left out
BSONIgnoreUndefined(o) == [k \in {j \in DOMAIN o : o[j] # Undefined} |-> o[k]]

\* the driver's BSON serialisation of o: undefined is written as null
BSON(o) == [k \in DOMAIN o |-> IF o[k] = Undefined THEN Null ELSE o[k]]

\* const { _id, ...sessionWithoutId } = session
StripId(d) == [k \in DOMAIN d \ {"_id"} |-> d[k]]

----------------------------------------------------------------------------
(* FileStorage *)

\* `${id}.json`
FileName(id) == [stem |-> id, ext |-> "json"]

\* fs.writeFileSync(filepath, text)
WriteFile(dir, f, text) ==
    [g \in DOMAIN dir \cup {f} |-> IF g = f THEN text ELSE dir[g]]

\* fs.unlinkSync(filepath)
Unlink(dir, f) == [g \in DOMAIN dir \ {f} |-> dir[g]]

FileSaveSession(dir, s, fault) ==
    IF fault = "io"
    THEN [dir |-> dir, out |-> Rejected("EIO")]
    ELSE [dir |-> WriteFile(dir, FileName(s.id), JSONStringify(s)),
          out |-> Fulfilled([success |-> TRUE, session |-> s])]

\* FileStorage.getAllSessions without the per-file try/catch
FileGetAllSessionsNoCatch(dir, fault) ==
    LET files == {f \in DOMAIN dir : f.ext = "json"}
        ids == {JSONParse(dir[f]).id : f \in {g \in files : dir[g].parses}}
    IN  IF fault = "io" \/ \E f \in files : ~dir[f].parses
        THEN [dir |-> dir, out |-> Rejected("EIO")]
        ELSE [dir |-> dir,
              out |-> Fulfilled([i \in ids |->
                         JSONParse(dir[CHOOSE f \in files : JSONParse(dir[f]).id = i])])]

\* FileStorage.getAllSessions without the .json filter
FileGetAllSessionsNoFilter(dir, fault) ==
    LET good == {f \in DOMAIN dir : dir[f].parses}
        ids == {JSONParse(dir[f]).id : f \in good}
    IN  IF fault = "io"
        THEN [dir |-> dir, out |-> Rejected("EIO")]
        ELSE [dir |-> dir,
              out |-> Fulfilled([i \in ids |->
                         JSONParse(dir[CHOOSE f \in good : JSONParse(dir[f]).id = i])])]

FileGetAllSessions(dir, fault) ==
    LET files == {f \in DOMAIN dir : f.ext = "json"}
        good == {f \in files : dir[f].parses}
        ids == {JSONParse(dir[f]).id : f \in good}
    IN  IF fault = "io"
        THEN [dir |-> dir, out |-> Rejected("EIO")]
        ELSE [dir |-> dir,
              out |-> Fulfilled([i \in ids |->
                         JSONParse(dir[CHOOSE f \in good : JSONParse(dir[f]).id = i])])]

FileGetSession(dir, id, fault) ==
    IF fault = "io"
    THEN [dir |-> dir, out |-> Rejected("EIO")]
    ELSE IF FileName(id) \notin DOMAIN dir
    THEN [dir |-> dir, out |-> Fulfilled(NullResult)]
    ELSE IF ~dir[FileName(id)].parses
    THEN [dir |-> dir, out |-> Rejected("SyntaxError")]
    ELSE [dir |-> dir, out |-> Fulfilled(JSONParse(dir[FileName(id)]))]

\* FileStorage.deleteSession throwing on a missing file
FileDeleteSessionThrows(dir, id, fault) ==
    IF fault = "io" \/ FileName(id) \notin DOMAIN dir
    THEN [dir |-> dir, out |-> Rejected("EIO")]
    ELSE [dir |-> Unlink(dir, FileName(id)), out |-> Fulfilled([success |-> TRUE])]

FileDeleteSession(dir, id, fault) ==
    IF fault = "io"
    THEN [dir |-> dir, out |-> Rejected("EIO")]
    ELSE IF FileName(id) \notin DOMAIN dir
    THEN [dir |-> dir,
          out |-> Fulfilled([success |-> FALSE, error |-> "Session not found"])]
    ELSE [dir |-> Unlink(dir, FileName(id)), out |-> Fulfilled([success |-> TRUE])]

----------------------------------------------------------------------------
(* MongoStorage.  m = [client, collection, docs]: the object's two fields  *)
(* and the documents the server holds.                                     *)

\* documents matching the filter { id }
Matching(ds, id) == {d \in ds : Get(d, "id") = id}

\* MongoStorage.connect; threw: the connection attempt failed
Connect(m, fault) ==
    IF m.client # Null
    THEN [m |-> m, threw |-> FALSE]
    ELSE IF fault = "connect"
    THEN [m |-> [m EXCEPT !.client = "MongoClient"], threw |-> TRUE]
    ELSE [m |-> [m EXCEPT !.client = "MongoClient", !.collection = "sessions"],
          threw |-> fault = "createIndex"]

\* collection.insertOne(s) in place of the upsert
InsertOne(ds, id, s) == ds \cup {BSON(s) @@ [_id |-> "ObjectId"]}

\* collection.updateOne({ id }, { $setOnInsert: s }, { upsert: true }): a
\* document that exists is left as it is
UpdateOneSetOnInsert(ds, id, s) ==
    IF Matching(ds, id) = {}
    THEN ds \cup {BSON(s) @@ [id |-> id] @@ [_id |-> "ObjectId"]}
    ELSE ds

\* collection.updateOne({ id }, { $set: s }, { upsert: true })
UpdateOneUpsert(ds, id, s) ==
    IF Matching(ds, id) = {}
    THEN ds \cup {BSON(s) @@ [id |-> id] @@ [_id |-> "ObjectId"]}
    ELSE LET d == CHOOSE d \in Matching(ds, id) : TRUE
         IN  (ds \ {d}) \cup {BSON(s) @@ d}

\* what every MongoStorage method does before it touches the collection:
\* await this.connect(), then dereference this.collection
Prepare(m, fault) ==
    LET c == Connect(m, fault)
    IN  IF c.threw THEN [m |-> c.m, error |-> "MongoNetworkError"]
        ELSE IF c.m.collection = Null THEN [m |-> c.m, error |-> "TypeError"]
        ELSE IF fault = "io" THEN [m |-> c.m, error |-> "MongoServerError"]
        ELSE [m |-> c.m, error |-> "none"]

MongoSaveSession(m, s, fault) ==
    LET p == Prepare(m, fault)
    IN  IF p.error # "none"
        THEN [m |-> p.m, out |-> Rejected(p.error)]
        ELSE [m |-> [p.m EXCEPT !.docs = UpdateOneUpsert(p.m.docs, s.id, s)],
              out |-> Fulfilled([success |-> TRUE, session |-> s])]

MongoGetAllSessions(m, fault) ==
    LET p == Prepare(m, fault)
        ids == {Get(d, "id") : d \in p.m.docs}
    IN  IF p.error # "none"
        THEN [m |-> p.m, out |-> Rejected(p.error)]
        ELSE [m |-> p.m,
              out |-> Fulfilled([i \in ids |->
                         StripId(CHOOSE d \in p.m.docs : Get(d, "id") = i)])]

MongoGetSession(m, id, fault) ==
    LET p == Prepare(m, fault)
    IN  IF p.error # "none"
        THEN [m |-> p.m, out |-> Rejected(p.error)]
        ELSE IF Matching(p.m.docs, id) = {}
        THEN [m |-> p.m, out |-> Fulfilled(NullResult)]
        ELSE [m |-> p.m,
              out |-> Fulfilled(StripId(CHOOSE d \in Matching(p.m.docs, id) : TRUE))]

MongoDeleteSession(m, id, fault) ==
    LET p == Prepare(m, fault)
    IN  IF p.error # "none"
        THEN [m |-> p.m, out |-> Rejected(p.error)]
        ELSE IF Matching(p.m.docs, id) = {}
        THEN [m |-> p.m,
              out |-> Fulfilled([success |-> FALSE, error |-> "Session not found"])]
        ELSE [m |-> [p.m EXCEPT !.docs =
                        p.m.docs \ {CHOOSE d \in Matching(p.m.docs, id) : TRUE}],
              out |-> Fulfilled([success |-> TRUE])]

----------------------------------------------------------------------------
(* One store behind the common interface.  st = [dataDir, client,          *)
(* collection, docs]; the result is the state after the call and the       *)
(* settled promise the method returned.                                    *)

\* the ways a call on a store can fail for reasons outside the program: an
\* I/O error of the call itself and, when the call has to connect first, a
\* failure of client.connect() or of createIndex()
Faults(name, st) ==
    IF name = "FILE" \/ st.client # Null THEN {"none", "io"}
    ELSE {"none", "connect", "createIndex", "io"}

Mongo(st) == [client |-> st.client, collection |-> st.collection, docs |-> st.docs]

WithDir(st, r) == [st |-> [st EXCEPT !.dataDir = r.dir], out |-> r.out]

WithMongo(st, r) ==
    [st |-> [st EXCEPT !.client = r.m.client, !.collection = r.m.collection,
                       !.docs = r.m.docs],
     out |-> r.out]

StoreSave(name, st, s, fault) ==
    IF name = "FILE" THEN WithDir(st, FileSaveSession(st.dataDir, s, fault))
    ELSE WithMongo(st, MongoSaveSession(Mongo(st), s, fault))

StoreGetAll(name, st, fault) ==
    IF name = "FILE" THEN WithDir(st, FileGetAllSessions(st.dataDir, fault))
    ELSE WithMongo(st, MongoGetAllSessions(Mongo(st), fault))

StoreGet(name, st, id, fault) ==
    IF name = "FILE" THEN WithDir(st, FileGetSession(st.dataDir, id, fault))
    ELSE WithMongo(st, MongoGetSession(Mongo(st), id, fault))

StoreDelete(name, st, id, fault) ==
    IF name = "FILE" THEN WithDir(st, FileDeleteSession(st.dataDir, id, fault))
    ELSE WithMongo(st, MongoDeleteSession(Mongo(st), id, fault))

\* the stores' state as one record, and its installation as the next state
State == [dataDir |-> dataDir, client |-> client, collection |-> collection,
          docs |-> docs]

Install(st) ==
    /\ dataDir' = st.dataDir
    /\ client' = st.client
    /\ collection' = st.collection
    /\ docs' = st.docs

\* whether a call changed what a store holds
Changed(st1, st2) == st1.dataDir # st2.dataDir \/ st1.docs # st2.docs

----------------------------------------------------------------------------
(* DualStorage *)

\* DualStorage.constructor: the enabled stores, file first
Constructor(enableFile, enableMongo) ==
    (IF enableFile THEN <<"FILE">> ELSE <<>>) \o (IF enableMongo THEN <<"MONGO">> ELSE <<>>)

\* storage.saveSession(sessionData) on each store of the list in turn; calls
\* keeps what each store's promise settled to
RECURSIVE SaveEach(_, _, _, _)
SaveEach(stores, st, s, faults) ==
    IF stores = <<>> THEN [st |-> st, calls |-> <<>>]
    ELSE LET r == StoreSave(Head(stores), st, s, faults[Head(stores)])
             rest == SaveEach(Tail(stores), r.st, s, faults)
         IN  [st |-> rest.st,
              calls |-> <<[name |-> Head(stores), out |-> r.out]>> \o rest.calls]

\* a fan-out that gives up at the first store that throws
RECURSIVE SaveUntilThrow(_, _, _, _)
SaveUntilThrow(stores, st, s, faults) ==
    IF stores = <<>> THEN [st |-> st, calls |-> <<>>]
    ELSE LET r == StoreSave(Head(stores), st, s, faults[Head(stores)])
             rest == IF r.out.status = "rejected"
                     THEN [st |-> r.st, calls |-> <<>>]
                     ELSE SaveUntilThrow(Tail(stores), r.st, s, faults)
         IN  [st |-> rest.st,
              calls |-> <<[name |-> Head(stores), out |-> r.out]>> \o rest.calls]

\* the map passed to Promise.allSettled in saveSession
SaveFanOut(stores, st, s, faults) == SaveEach(stores, st, s, faults)

RECURSIVE DeleteEach(_, _, _, _)
DeleteEach(stores, st, id, faults) ==
    IF stores = <<>> THEN [st |-> st, calls |-> <<>>]
    ELSE LET r == StoreDelete(Head(stores), st, id, faults[Head(stores)])
             rest == DeleteEach(Tail(stores), r.st, id, faults)
         IN  [st |-> rest.st,
              calls |-> <<[name |-> Head(stores), out |-> r.out]>> \o rest.calls]

\* .then(() => ({ name, success: true })) under Promise.allSettled
Settled(calls) ==
    [i \in 1..Len(calls) |->
        IF calls[i].out.status = "fulfilled"
        THEN Fulfilled([name |-> calls[i].name, success |-> TRUE])
        ELSE calls[i].out]

\* results.filter(r => r.status === "fulfilled").map(r => r.value.name)
Successes(results) ==
    LET ok == SelectSeq(results, LAMBDA r : r.status = "fulfilled")
    IN  [i \in 1..Len(ok) |-> ok[i].value.name]

\* saveSession reporting success only when every store succeeded
SaveVerdictAll(results) == Len(Successes(results)) = Len(results)

\* success: successes.length > 0
SaveVerdict(results) == Len(Successes(results)) > 0

DualSaveSession(stores, st, s, faults) ==
    LET f == SaveFanOut(stores, st, s, faults)
        results == Settled(f.calls)
    IN  [st |-> f.st, calls |-> f.calls, results |-> results,
         ret |-> [success |-> SaveVerdict(results), session |-> s]]

DualDeleteSession(stores, st, id, faults) ==
    LET f == DeleteEach(stores, st, id, faults)
        results == Settled(f.calls)
    IN  [st |-> f.st, calls |-> f.calls, results |-> results,
         ret |-> [success |-> Len(Successes(results)) > 0]]

\* a coordinator reading from the store of lowest priority
LastStore(stores) == stores[Len(stores)]

\* this.storages[0]
Primary(stores) == stores[1]

DualGetAllSessions(stores, st, faults) ==
    LET r == StoreGetAll(Primary(stores), st, faults[Primary(stores)])
    IN  [st |-> r.st, calls |-> <<[name |-> Primary(stores), out |-> r.out]>>,
         out |-> r.out]

DualGetSession(stores, st, id, faults) ==
    LET r == StoreGet(Primary(stores), st, id, faults[Primary(stores)])
    IN  [st |-> r.st, calls |-> <<[name |-> Primary(stores), out |-> r.out]>>,
         out |-> r.out]

----------------------------------------------------------------------------
(* History helpers: what a store holds under an id *)

\* the records a store holds under id: parsable .json files whose content
\* carries that id, or documents of the collection with that id
RecordsUnder(name, st, id) ==
    IF name = "FILE"
    THEN {JSONParse(st.dataDir[f]) :
            f \in {g \in DOMAIN st.dataDir :
                     /\ g.ext = "json"
                     /\ st.dataDir[g].parses
                     /\ Get(JSONParse(st.dataDir[g]), "id") = id}}
    ELSE {StripId(d) : d \in Matching(st.docs, id)}

\* whether the store has an entry for id at all (a file of that name, even an
\* unparsable one, or a document)
Present(name, st, id) ==
    IF name = "FILE" THEN FileName(id) \in DOMAIN st.dataDir
    ELSE Matching(st.docs, id) # {}

PrevRecord(name, st, id) ==
    IF RecordsUnder(name, st, id) = {} THEN NullResult
    ELSE CHOOSE r \in RecordsUnder(name, st, id) : TRUE

NoCall == [op |-> "none", store |-> "none", id |-> Undefined, session |-> NullResult,
           fault |-> "none", present |-> FALSE, prev |-> NullResult,
           changed |-> FALSE, out |-> Rejected("none")]

----------------------------------------------------------------------------
(* SpecStore: one store object driven directly *)

\* a stale copy of a session file left next to the session files
BackupFile == [stem |-> IdPool[1], ext |-> "bak"]
BackupText == JSONStringify([id |-> IdPool[1], name |-> NamePool[1]])

\* the two requests that may be in flight together
Reqs == {"req1", "req2"}

\* a promise that has not settled, and a store that is not enabled
NotSettled == [status |-> "pending"]
NotCalled == [status |-> "none"]

Idle == [busy |-> FALSE, op |-> "none", session |-> NullResult, fileOut |-> NotCalled,
         mongoStep |-> "none", mongoOut |-> NotCalled]

NeverWritten == [n \in {"FILE", "MONGO"} |-> [i \in Ids |-> NullResult]]

ConcIdle == pending = [r \in Reqs |-> Idle] /\ written = NeverWritten /\ arrived = 0

NoSessions == [i \in {} |-> NullResult]

ClientIdle ==
    /\ now = 1 /\ sessions = NoSessions /\ currentSessionId = Null
    /\ inflight = {} /\ deleted = {}

NoComparison == [plotType |-> "none"]

CmpIdle == cmp = NoComparison

AuxInit == ConcIdle /\ ClientIdle /\ CmpIdle

\* the data directories a FileStorage may be constructed on: any set of
\* unparsable .json files (named by a session id or not), with or without
\* the backup copy
InitialDirs ==
    {[f \in {FileName(i) : i \in G} \cup B |-> IF f.ext = "json" THEN Garbage ELSE BackupText] :
        G \in SUBSET (Ids \cup {"broken"}), B \in {{}, {BackupFile}}}

EmptyDir == [f \in {} |-> Garbage]

InitStore ==
    /\ storages \in {<<"FILE">>, <<"MONGO">>}
    /\ dataDir \in (IF storages[1] = "FILE" THEN InitialDirs ELSE {EmptyDir})
    /\ docs = {}
    /\ client = Null
    /\ collection = Null
    /\ saved = {}
    /\ last = NoCall
    /\ AuxInit

CallSave ==
    \E s \in SessionObjects, fault \in Faults(storages[1], State) :
        \E r \in {StoreSave(storages[1], State, s, fault)} :
            /\ Install(r.st)
            /\ saved' = IF r.out.status = "fulfilled" THEN saved \cup {s.id} ELSE saved
            /\ last' = [op |-> "saveSession", store |-> storages[1], id |-> s.id,
                        session |-> s, fault |-> fault,
                        present |-> Present(storages[1], State, s.id),
                        prev |-> PrevRecord(storages[1], State, s.id),
                        changed |-> Changed(State, r.st), out |-> r.out]
            /\ UNCHANGED <<storages, aux>>

CallGetAll ==
    \E fault \in Faults(storages[1], State) :
        \E r \in {StoreGetAll(storages[1], State, fault)} :
            /\ Install(r.st)
            /\ last' = [NoCall EXCEPT !.op = "getAllSessions", !.store = storages[1],
                                      !.fault = fault,
                                      !.changed = Changed(State, r.st), !.out = r.out]
            /\ UNCHANGED <<storages, saved, aux>>

CallGet ==
    \E id \in Ids, fault \in Faults(storages[1], State) :
        \E r \in {StoreGet(storages[1], State, id, fault)} :
            /\ Install(r.st)
            /\ last' = [NoCall EXCEPT !.op = "getSession", !.store = storages[1],
                                      !.id = id, !.fault = fault,
                                      !.present = Present(storages[1], State, id),
                                      !.prev = PrevRecord(storages[1], State, id),
                                      !.changed = Changed(State, r.st), !.out = r.out]
            /\ UNCHANGED <<storages, saved, aux>>

CallDelete ==
    \E id \in Ids, fault \in Faults(storages[1], State) :
        \E r \in {StoreDelete(storages[1], State, id, fault)} :
            /\ Install(r.st)
            /\ saved' = IF r.out.status = "fulfilled" /\ r.out.value.success
                        THEN saved \ {id} ELSE saved
            /\ last' = [NoCall EXCEPT !.op = "deleteSession", !.store = storages[1],
                                      !.id = id, !.fault = fault,
                                      !.present = Present(storages[1], State, id),
                                      !.prev = PrevRecord(storages[1], State, id),
                                      !.changed = Changed(State, r.st), !.out = r.out]
            /\ UNCHANGED <<storages, aux>>

NextStore == CallSave \/ CallGetAll \/ CallGet \/ CallDelete

SpecStore == InitStore /\ [][NextStore]_vars

----------------------------------------------------------------------------
(* Spec: the HTTP server.  One step is one request handled to completion.  *)

StoreNames == {"FILE", "MONGO"}

Enabled(name) == \E i \in 1..Len(storages) : storages[i] = name

\* for one request, how each enabled store's call fares
FaultMaps ==
    {f \in [StoreNames -> {"none", "connect", "createIndex", "io"}] :
        \A n \in StoreNames : f[n] \in (IF Enabled(n) THEN Faults(n, State) ELSE {"none"})}

\* req.body of POST /api/sessions: any of id, name and runs may be missing
Bodies == [id : Ids \cup {Undefined}, name : Names \cup {Undefined},
           runs : RunsValues \cup {Undefined}]

\* the enabled stores that have an entry for id
StoredIn(st, id) == {n \in StoreNames : Enabled(n) /\ Present(n, st, id)}

NoRequest == [op |-> "none", id |-> Undefined, body |-> NullResult,
              session |-> NullResult,
              stored |-> {}, changed |-> FALSE, calls |-> <<>>,
              ret |-> NullResult, res |-> [status |-> 0, body |-> NullResult]]

Init ==
    /\ storages \in {Constructor(f, m) : f, m \in BOOLEAN} \ {<<>>}
    /\ dataDir = EmptyDir
    /\ docs = {}
    /\ client = Null
    /\ collection = Null
    /\ saved = {}
    /\ last = NoRequest
    /\ AuxInit

\* the older handler of backend/server.js asks for the name only
MissingName(body) == body.name = Undefined

\* if (!id || !name)
MissingRequired(body) == body.id = Undefined \/ body.name = Undefined

\* app.post("/api/sessions").  Of the fields the handler copies from the body,
\* runs stands for the optional ones (customPlots is copied the same way);
\* the two timestamps are left out.
PostSession ==
    \E body \in Bodies :
        IF MissingRequired(body)
        THEN /\ last' = [NoRequest EXCEPT
                            !.op = "POST", !.id = body.id, !.body = body,
                            !.res = [status |-> 400,
                                     body |-> [error |-> "Session id and name are required"]]]
             /\ UNCHANGED <<storages, dataDir, docs, client, collection, saved, aux>>
        ELSE \E faults \in FaultMaps :
             \E s \in {[id |-> body.id, name |-> body.name, runs |-> body.runs]} :
             \E r \in {DualSaveSession(storages, State, s, faults)} :
                 /\ Install(r.st)
                 /\ last' = [op |-> "POST", id |-> s.id, body |-> body,
                             session |-> s,
                             stored |-> StoredIn(State, s.id),
                             changed |-> Changed(State, r.st), calls |-> r.calls,
                             ret |-> r.ret, res |-> [status |-> 200, body |-> r.ret]]
                 /\ UNCHANGED <<storages, saved, aux>>

\* app.get("/api/sessions")
ListSessions ==
    \E faults \in FaultMaps :
        \E r \in {DualGetAllSessions(storages, State, faults)} :
            /\ Install(r.st)
            /\ last' = [NoRequest EXCEPT
                           !.op = "LIST", !.changed = Changed(State, r.st),
                           !.calls = r.calls,
                           !.res = IF r.out.status = "rejected"
                                   THEN [status |-> 500,
                                         body |-> [error |-> "Failed to list sessions"]]
                                   ELSE [status |-> 200, body |-> r.out.value]]
            /\ UNCHANGED <<storages, saved, aux>>

\* app.get("/api/sessions/:id")
LoadSession ==
    \E id \in Ids, faults \in FaultMaps :
        \E r \in {DualGetSession(storages, State, id, faults)} :
            /\ Install(r.st)
            /\ last' = [NoRequest EXCEPT
                           !.op = "LOAD", !.id = id,
                           !.stored = StoredIn(State, id),
                           !.changed = Changed(State, r.st), !.calls = r.calls,
                           !.res = IF r.out.status = "rejected"
                                   THEN [status |-> 500,
                                         body |-> [error |-> "Failed to load session"]]
                                   ELSE IF r.out.value = NullResult
                                   THEN [status |-> 404,
                                         body |-> [error |-> "Session not found"]]
                                   ELSE [status |-> 200, body |-> r.out.value]]
            /\ UNCHANGED <<storages, saved, aux>>

\* app.delete("/api/sessions/:id")
DeleteSession ==
    \E id \in Ids, faults \in FaultMaps :
        \E r \in {DualDeleteSession(storages, State, id, faults)} :
            /\ Install(r.st)
            /\ last' = [NoRequest EXCEPT
                           !.op = "DELETE", !.id = id,
                           !.stored = StoredIn(State, id),
                           !.changed = Changed(State, r.st), !.calls = r.calls,
                           !.ret = r.ret,
                           !.res = IF ~r.ret.success
                                   THEN [status |-> 404, body |-> [error |-> Undefined]]
                                   ELSE [status |-> 200, body |-> r.ret]]
            /\ UNCHANGED <<storages, saved, aux>>

Next == PostSession \/ ListSessions \/ LoadSession \/ DeleteSession

Spec == Init /\ [][Next]_vars

----------------------------------------------------------------------------
(* SpecConc: POST and DELETE requests handled concurrently.  A step is     *)
(* what the server runs between two waits on I/O: the handler up to its    *)
(* first pending await, then one step for each I/O completion it waits     *)
(* for.  The fs calls complete inside the first step; client.connect(),    *)
(* createIndex(), updateOne() and deleteOne() complete in steps of their   *)
(* own, in any order among the requests in flight.  The answer to a        *)
(* request is not kept in the state: a body that fails validation is       *)
(* answered 400 and changes nothing.                                       *)

InitConc ==
    /\ storages \in {Constructor(f, m) : f, m \in BOOLEAN} \ {<<>>}
    /\ dataDir = EmptyDir
    /\ docs = {}
    /\ client = Null
    /\ collection = Null
    /\ saved = {}
    /\ last = NoRequest
    /\ ConcIdle
    /\ ClientIdle
    /\ CmpIdle

\* MongoStorage.saveSession up to its first wait on the network: connect()
\* returns at once when this.client is set, and this.collection is then
\* dereferenced whether or not a connection attempt has completed
MongoSaveStart(m) ==
    IF m.client = Null
    THEN [m |-> [m EXCEPT !.client = "MongoClient"], step |-> "connecting",
          out |-> NotSettled]
    ELSE IF m.collection = Null
    THEN [m |-> m, step |-> "settled", out |-> Rejected("TypeError")]
    ELSE [m |-> m, step |-> "updating", out |-> NotSettled]

\* the handler from the arrival of the request to the await of
\* Promise.allSettled: validation, then every store's saveSession is called
Receive(r) ==
    /\ ~pending[r].busy
    /\ arrived < MaxRequests
    /\ arrived' = arrived + 1
    /\ \E body \in Bodies :
        IF MissingRequired(body)
        THEN UNCHANGED <<storages, dataDir, docs, client, collection, saved, last,
                         pending, written, besideConc>>
        ELSE \E fault \in {"none", "io"} :
             \E s \in {[id |-> body.id, name |-> body.name, runs |-> body.runs]} :
             \E f \in {IF Enabled("FILE")
                       THEN FileSaveSession(dataDir, s, fault)
                       ELSE [dir |-> dataDir, out |-> NotCalled]} :
             \E m \in {IF Enabled("MONGO")
                       THEN MongoSaveStart(Mongo(State))
                       ELSE [m |-> Mongo(State), step |-> "none", out |-> NotCalled]} :
                 /\ Enabled("FILE") \/ fault = "none"
                 /\ dataDir' = f.dir
                 /\ client' = m.m.client
                 /\ pending' = [pending EXCEPT ![r] =
                                   [busy |-> TRUE, op |-> "POST", session |-> s,
                                    fileOut |-> f.out,
                                    mongoStep |-> m.step, mongoOut |-> m.out]]
                 /\ written' = IF f.out.status = "fulfilled"
                               THEN [written EXCEPT !["FILE"][s.id] = s]
                               ELSE written
                 /\ UNCHANGED <<storages, docs, collection, saved, last, besideConc>>

\* MongoStorage.deleteSession up to its first wait on the network
MongoDeleteStart(m) ==
    LET s == MongoSaveStart(m)
    IN  [s EXCEPT !.step = IF @ = "updating" THEN "deleting" ELSE @]

\* the DELETE handler from the arrival of the request to the await of
\* Promise.allSettled: every store's deleteSession is called
ReceiveDelete(r) ==
    /\ ~pending[r].busy
    /\ arrived < MaxRequests
    /\ arrived' = arrived + 1
    /\ \E id \in Ids, fault \in {"none", "io"} :
       \E f \in {IF Enabled("FILE")
                 THEN FileDeleteSession(dataDir, id, fault)
                 ELSE [dir |-> dataDir, out |-> NotCalled]} :
       \E m \in {IF Enabled("MONGO")
                 THEN MongoDeleteStart(Mongo(State))
                 ELSE [m |-> Mongo(State), step |-> "none", out |-> NotCalled]} :
           /\ Enabled("FILE") \/ fault = "none"
           /\ dataDir' = f.dir
           /\ client' = m.m.client
           /\ pending' = [pending EXCEPT ![r] =
                             [busy |-> TRUE, op |-> "DELETE", session |-> [id |-> id],
                              fileOut |-> f.out,
                              mongoStep |-> m.step, mongoOut |-> m.out]]
           /\ written' = IF f.out.status = "fulfilled" /\ f.out.value.success
                         THEN [written EXCEPT !["FILE"][id] = NullResult]
                         ELSE written
           /\ UNCHANGED <<storages, docs, collection, saved, last, besideConc>>

\* await this.client.connect() completes
ConnectSettles(r) ==
    /\ pending[r].mongoStep = "connecting"
    /\ \E ok \in BOOLEAN :
        IF ok
        THEN /\ collection' = "sessions"
             /\ pending' = [pending EXCEPT ![r].mongoStep = "indexing"]
        ELSE /\ pending' = [pending EXCEPT ![r].mongoStep = "settled",
                                           ![r].mongoOut = Rejected("MongoNetworkError")]
             /\ UNCHANGED collection
    /\ UNCHANGED <<storages, dataDir, docs, client, saved, last, written, arrived, besideConc>>

\* await this.collection.createIndex() completes; on success connect()
\* returns and saveSession sends its updateOne
IndexSettles(r) ==
    /\ pending[r].mongoStep = "indexing"
    /\ \E ok \in BOOLEAN :
        pending' = IF ok
                   THEN [pending EXCEPT ![r].mongoStep =
                                   IF pending[r].op = "POST" THEN "updating"
                                   ELSE "deleting"]
                   ELSE [pending EXCEPT ![r].mongoStep = "settled",
                                        ![r].mongoOut = Rejected("MongoNetworkError")]
    /\ UNCHANGED <<storages, dataDir, docs, client, collection, saved, last, written, arrived, besideConc>>

\* await this.collection.updateOne() completes: the server has applied it
UpdateSettles(r) ==
    /\ pending[r].mongoStep = "updating"
    /\ \E ok \in BOOLEAN :
        \E s \in {pending[r].session} :
        IF ok
        THEN /\ docs' = UpdateOneUpsert(docs, s.id, s)
             /\ pending' = [pending EXCEPT
                               ![r].mongoStep = "settled",
                               ![r].mongoOut = Fulfilled([success |-> TRUE, session |-> s])]
             /\ written' = [written EXCEPT !["MONGO"][s.id] = s]
        ELSE /\ pending' = [pending EXCEPT ![r].mongoStep = "settled",
                                           ![r].mongoOut = Rejected("MongoServerError")]
             /\ UNCHANGED <<docs, written>>
    /\ UNCHANGED <<storages, dataDir, client, collection, saved, last, arrived, besideConc>>

\* await this.collection.deleteOne() completes: the server has applied it
DeleteSettles(r) ==
    /\ pending[r].mongoStep = "deleting"
    /\ \E ok \in BOOLEAN :
        \E id \in {pending[r].session.id} :
        IF ok
        THEN \E d \in {MongoDeleteSession(Mongo(State), id, "none")} :
             /\ docs' = d.m.docs
             /\ pending' = [pending EXCEPT ![r].mongoStep = "settled",
                                           ![r].mongoOut = d.out]
             /\ written' = IF d.out.value.success
                           THEN [written EXCEPT !["MONGO"][id] = NullResult]
                           ELSE written
        ELSE /\ pending' = [pending EXCEPT ![r].mongoStep = "settled",
                                           ![r].mongoOut = Rejected("MongoServerError")]
             /\ UNCHANGED <<docs, written>>
    /\ UNCHANGED <<storages, dataDir, client, collection, saved, last, arrived, besideConc>>

\* the promises of the store calls of request r, in the order of this.storages
CallsOf(r) ==
    [i \in 1..Len(storages) |->
        [name |-> storages[i],
         out |-> IF storages[i] = "FILE" THEN pending[r].fileOut
                 ELSE pending[r].mongoOut]]

\* what res.json(result) sends for request r once its store calls have settled
ResponseOf(r) ==
    IF pending[r].op = "POST"
    THEN [status |-> 200,
          body |-> [success |-> SaveVerdict(Settled(CallsOf(r))),
                    session |-> pending[r].session]]
    ELSE IF Len(Successes(Settled(CallsOf(r)))) > 0
    THEN [status |-> 200, body |-> [success |-> TRUE]]
    ELSE [status |-> 404, body |-> [error |-> Undefined]]

\* a coordinator that waits for the first store only (Promise.race)
FirstSettled(r) == pending[r].fileOut.status # "pending"

\* await Promise.allSettled(...): no store call of request r is still waiting
\* (fs calls are settled when they return; the database call is when it has
\* reached its last step)
AllSettled(r) == pending[r].mongoStep \in {"none", "settled"}

\* Promise.allSettled resolves, saveSession or deleteSession returns and the
\* response is sent
Respond(r) ==
    /\ pending[r].busy
    /\ AllSettled(r)
    /\ pending' = [pending EXCEPT ![r] = Idle]
    /\ UNCHANGED <<storages, dataDir, docs, client, collection, saved, last, written, arrived, besideConc>>

NextConc ==
    \E r \in Reqs :
        \/ Receive(r)
        \/ ReceiveDelete(r)
        \/ ConnectSettles(r)
        \/ IndexSettles(r)
        \/ UpdateSettles(r)
        \/ DeleteSettles(r)
        \/ Respond(r)

SpecConc == InitConc /\ [][NextConc]_vars

----------------------------------------------------------------------------
(* SpecClient: the page's session management and the server, with a clock. *)
(* A user action updates the state of the page and sends its request with  *)
(* a fetch() nobody waits for; the server handles the requests in flight   *)
(* one at a time, in any order, and no store call fails.  User actions are *)
(* at least one instant of the clock apart (Date.now() counts              *)
(* milliseconds), so the clock advances after each of them; requests of    *)
(* other clients arrive, and are handled, at any instant.                  *)

TimePool == <<"t1", "t2", "t3", "t4", "t5", "t6">>
MillisPool == <<"1", "2", "3", "4", "5", "6">>
CountPool == <<"1", "2", "3", "4", "5", "6", "7", "8", "9">>

\* new Date().toISOString() at instant i; the texts are ordered as the instants
ISO(i) == TimePool[i]
Times == {ISO(i) : i \in 1..MaxTime}
TimeIndex(text) == CHOOSE i \in 1..Len(TimePool) : TimePool[i] = text

\* `session-${Date.now()}`
NewSessionId(i) == "session-" \o MillisPool[i]

\* x || y on the values of the model
OrElse(x, y) == IF x \in {Undefined, Null} THEN y ELSE x

\* the sessionData the POST handler builds at instant i
SessionData(body, i) ==
    [id |-> Get(body, "id"), name |-> Get(body, "name"), runs |-> Get(body, "runs"),
     createdAt |-> OrElse(Get(body, "createdAt"), ISO(i)),
     updatedAt |-> OrElse(Get(body, "updatedAt"), ISO(i))]

NoFaults == [n \in StoreNames |-> "none"]

\* the stores after the server has handled POST /api/sessions with this body
AfterPost(body) ==
    IF MissingRequired([id |-> Get(body, "id"), name |-> Get(body, "name")])
    THEN State
    ELSE DualSaveSession(storages, State, SessionData(body, now), NoFaults).st

\* a request body with any timestamps, or none, supplied by its sender
TimedBodies ==
    [id : Ids, name : {NamePool[1]}, runs : {Undefined},
     createdAt : Times \cup {Undefined}, updatedAt : Times \cup {Undefined}]

\* the requests of the page
Post(body) == [op |-> "POST", body |-> body]
Delete(id) == [op |-> "DELETE", id |-> id]

\* fetch(...) without await: the request is on its way
Send(q) ==
    /\ inflight' = inflight \cup {q}
    /\ UNCHANGED <<dataDir, docs, client, collection>>

\* the server handles one of the requests in flight
Deliver ==
    /\ \E q \in inflight :
        /\ inflight' = inflight \ {q}
        /\ Install(IF q.op = "POST" THEN AfterPost(q.body)
                   ELSE DualDeleteSession(storages, State, q.id, NoFaults).st)
    /\ UNCHANGED <<storages, saved, last, besideClient, now, sessions, currentSessionId,
                   deleted>>

InitClient ==
    /\ storages \in {Constructor(f, m) : f, m \in BOOLEAN} \ {<<>>}
    /\ dataDir = EmptyDir
    /\ docs = {}
    /\ client = Null
    /\ collection = Null
    /\ saved = {}
    /\ last = NoRequest
    /\ ConcIdle
    /\ ClientIdle
    /\ CmpIdle

Tick ==
    /\ now <= MaxTime
    /\ now' = now + 1
    /\ UNCHANGED <<storages, dataDir, docs, client, collection, saved, last, besideClient,
                   sessions, currentSessionId, inflight, deleted>>

\* POST /api/sessions sent by some other client
DirectPost ==
    \E body \in TimedBodies :
        /\ Install(AfterPost(body))
        /\ deleted' = deleted \ {body.id}
        /\ UNCHANGED <<storages, saved, last, besideClient, now, sessions,
                       currentSessionId, inflight>>

\* the ids of loaded, most recently updated first
MostRecent(loaded) ==
    CHOOSE i \in DOMAIN loaded :
        \A j \in DOMAIN loaded :
            TimeIndex(loaded[i].updatedAt) >= TimeIndex(loaded[j].updatedAt)

\* the effect that runs when the page is opened: load the sessions, or create
\* the default session when there is none
Mount ==
    /\ currentSessionId = Null /\ sessions = NoSessions
    /\ now <= MaxTime
    /\ now' = now + 1
    /\ \E r \in {DualGetAllSessions(storages, State, NoFaults)} :
        IF DOMAIN r.out.value # {}
        THEN /\ Install(r.st)
             /\ sessions' = r.out.value
             /\ currentSessionId' = MostRecent(r.out.value)
             /\ UNCHANGED inflight
        ELSE \E s \in {[id |-> NewSessionId(now), name |-> "Test Data",
                        createdAt |-> ISO(now), updatedAt |-> ISO(now),
                        runs |-> "r1"]} :
             /\ sessions' = (s.id :> s)
             /\ currentSessionId' = s.id
             /\ Send(Post(s))
    /\ UNCHANGED <<storages, saved, last, besideClient, deleted>>

createNewSession ==
    /\ now <= MaxTime
    /\ now' = now + 1
    /\ \E s \in {[id |-> NewSessionId(now),
                  name |-> "Benchmark " \o CountPool[Cardinality(DOMAIN sessions) + 1],
                  createdAt |-> ISO(now), updatedAt |-> ISO(now),
                  runs |-> Undefined]} :
        /\ sessions' = (s.id :> s) @@ sessions
        /\ currentSessionId' = s.id
        /\ Send(Post(s))
    /\ UNCHANGED <<storages, saved, last, besideClient, deleted>>

switchSession ==
    /\ \E id \in DOMAIN sessions :
        /\ id # currentSessionId
        /\ currentSessionId' = id
    /\ UNCHANGED <<storages, dataDir, docs, client, collection, saved, last, besideClient,
                   now, sessions, inflight, deleted>>

\* the user has a current session to act on
HasCurrent == currentSessionId # Null /\ currentSessionId \in DOMAIN sessions

renameSession ==
    /\ HasCurrent
    /\ now <= MaxTime
    /\ now' = now + 1
    /\ \E renameValue \in Names :
       \E s \in {[name |-> renameValue, updatedAt |-> ISO(now)]
                   @@ sessions[currentSessionId]} :
        /\ sessions' = (currentSessionId :> s) @@ sessions
        /\ Send(Post(s))
    /\ UNCHANGED <<storages, saved, last, besideClient, currentSessionId, deleted>>

duplicateSession ==
    /\ HasCurrent
    /\ now <= MaxTime
    /\ now' = now + 1
    /\ \E s \in {[id |-> NewSessionId(now),
                  name |-> sessions[currentSessionId].name \o " (Copy)",
                  createdAt |-> ISO(now), updatedAt |-> ISO(now)]
                   @@ sessions[currentSessionId]} :
        /\ sessions' = (s.id :> s) @@ sessions
        /\ currentSessionId' = s.id
        /\ Send(Post(s))
    /\ UNCHANGED <<storages, saved, last, besideClient, deleted>>

\* a session list from which every session can be deleted
NoSessionLeft == Cardinality(DOMAIN sessions) = 0

\* if (Object.keys(sessions).length === 1)
OnlySession == Cardinality(DOMAIN sessions) = 1

\* Object.keys(o)[0]: undefined for an empty object; which key comes first
\* depends on the order in which the server listed the sessions
FirstKeys(o) == IF DOMAIN o = {} THEN {Undefined} ELSE DOMAIN o

\* deleteSession(sessionId) for a session of the list, confirmed by the user
deleteSession ==
    /\ now <= MaxTime
    /\ now' = now + 1
    /\ ~OnlySession
    /\ \E sessionId \in DOMAIN sessions :
       \E updatedSessions \in {[k \in DOMAIN sessions \ {sessionId} |-> sessions[k]]} :
        /\ sessions' = updatedSessions
        /\ IF sessionId = currentSessionId
           THEN \E newCurrentId \in FirstKeys(updatedSessions) :
                    currentSessionId' = newCurrentId
           ELSE UNCHANGED currentSessionId
        /\ Send(Delete(sessionId))
        /\ deleted' = deleted \cup {sessionId}
    /\ UNCHANGED <<storages, saved, last, besideClient>>

\* the effect that runs when runs, customPlots or currentSessionId changed
Autosave ==
    /\ HasCurrent
    /\ now <= MaxTime
    /\ now' = now + 1
    /\ \E runs \in RunsValues :
       \E s \in {[runs |-> runs, updatedAt |-> ISO(now)]
                   @@ sessions[currentSessionId]} :
        /\ sessions' = (currentSessionId :> s) @@ sessions
        /\ Send(Post(s))
    /\ UNCHANGED <<storages, saved, last, besideClient, currentSessionId, deleted>>

NextClient ==
    \/ Tick
    \/ DirectPost
    \/ Mount
    \/ createNewSession
    \/ switchSession
    \/ renameSession
    \/ duplicateSession
    \/ deleteSession
    \/ Autosave
    \/ Deliver

SpecClient == InitClient /\ [][NextClient]_vars

----------------------------------------------------------------------------
(* The comparison statistics of a custom plot.  Numbers are exact: a       *)
(* quotient is kept as a reduced fraction [num, den] with den > 0, and a   *)
(* point keeps Receive_Throughput in bit/s, the division by 1e6 being      *)
(* applied when two throughputs are compared:                              *)
(*   |a / 1e6 - b / 1e6| < 1.0   iff   |a - b| < 1.0 * 1e6.                *)

\* the matching tolerance in Mbps, and bit/s per Mbps
Tolerance == 1
Scale == 1000000

\* Math.abs(a - b)
AbsDiff(a, b) == IF a >= b THEN a - b ELSE b - a

RECURSIVE Gcd(_, _)
Gcd(a, b) == IF b = 0 THEN a ELSE Gcd(b, a % b)

\* n / d for d > 0
Rat(n, d) ==
    LET g == Gcd(AbsDiff(n, 0), d)
    IN  [num |-> n \div g, den |-> d \div g]

RatAdd(x, y) == Rat(x.num * y.den + y.num * x.den, x.den * y.den)

\* seq.reduce((a, b) => a + b, 0)
RECURSIVE SumFrom(_, _)
SumFrom(acc, seq) ==
    IF seq = <<>> THEN acc ELSE SumFrom(RatAdd(acc, Head(seq)), Tail(seq))

\* the sum of the list, not divided by its length
Total(seq) == SumFrom(Rat(0, 1), seq)

\* diffs.reduce((a, b) => a + b, 0) / diffs.length, for a non-empty list
Mean(seq) ==
    LET s == SumFrom(Rat(0, 1), seq)
    IN  Rat(s.num, s.den * Len(seq))

\* a test without the protection domain: find() returns undefined
NoPD == [absent |-> TRUE]
\* comparePoints[0] of an empty list
NoPoint == [absent |-> TRUE]

\* baselinePoints / comparePoints: one point for every test that has the
\* protection domain, its throughput read from the CSV row of the same index
Points(run) ==
    LET with == SelectSeq([i \in 1..Len(run.tests) |-> i],
                          LAMBDA i : run.tests[i] # NoPD)
    IN  [k \in 1..Len(with) |->
            [throughput |-> IF with[k] <= Len(run.data) THEN run.data[with[k]] ELSE 0,
             total |-> run.tests[with[k]].cpu_utilization,
             kernel |-> run.tests[with[k]].kernel_cpu_utilization,
             user |-> run.tests[with[k]].user_cpu_utilization]]

\* the reduce callback accepting a point at the same distance as well
CloserOrEqual(basePt, closest, pt) ==
    IF AbsDiff(pt.throughput, basePt.throughput)
         <= AbsDiff(closest.throughput, basePt.throughput)
    THEN pt ELSE closest

\* (closest, pt) => diff < closestDiff ? pt : closest
Closer(basePt, closest, pt) ==
    IF AbsDiff(pt.throughput, basePt.throughput)
         < AbsDiff(closest.throughput, basePt.throughput)
    THEN pt ELSE closest

RECURSIVE Reduce(_, _, _)
Reduce(points, basePt, closest) ==
    IF points = <<>> THEN closest
    ELSE Reduce(Tail(points), basePt, Closer(basePt, closest, Head(points)))

\* comparePoints.reduce(..., comparePoints[0])
Closest(comparePoints, basePt) ==
    IF comparePoints = <<>> THEN NoPoint
    ELSE Reduce(comparePoints, basePt, comparePoints[1])

\* a tolerance test that accepts a distance of exactly 1.0 Mbps
WithinToleranceInclusive(matchPt, basePt) ==
    AbsDiff(matchPt.throughput, basePt.throughput) <= Tolerance * Scale

\* Math.abs(matchPt.throughput - basePt.throughput) < 1.0
WithinTolerance(matchPt, basePt) ==
    AbsDiff(matchPt.throughput, basePt.throughput) < Tolerance * Scale

\* the body of baselinePoints.forEach for one baseline point: scan holds the
\* locals of the loop so far
Visit(scan, basePt, comparePoints, cpuType) ==
    LET matchPt == Closest(comparePoints, basePt)
    IN  IF matchPt # NoPoint /\ WithinTolerance(matchPt, basePt)
        THEN [closest |-> Append(scan.closest, matchPt),
              matched |-> Append(scan.matched, TRUE),
              diffs |-> IF basePt[cpuType] > 0
                        THEN Append(scan.diffs,
                                    Rat((matchPt[cpuType] - basePt[cpuType]) * 100,
                                        basePt[cpuType]))
                        ELSE scan.diffs,
              absDiffs |-> Append(scan.absDiffs,
                                  Rat(matchPt[cpuType] - basePt[cpuType], 1))]
        ELSE [scan EXCEPT !.closest = Append(scan.closest, matchPt),
                          !.matched = Append(scan.matched, FALSE)]

RECURSIVE ForEach(_, _, _, _)
ForEach(scan, baselinePoints, comparePoints, cpuType) ==
    IF baselinePoints = <<>> THEN scan
    ELSE ForEach(Visit(scan, Head(baselinePoints), comparePoints, cpuType),
                 Tail(baselinePoints), comparePoints, cpuType)

\* the loop over the baseline points: for each of them the point the reduce
\* selected and whether it was accepted, and the two lists of differences
Scan(baselinePoints, comparePoints, cpuType) ==
    ForEach([closest |-> <<>>, matched |-> <<>>, diffs |-> <<>>, absDiffs |-> <<>>],
            baselinePoints, comparePoints, cpuType)

\* if (diffs.length > 0)
Report(scan) == Len(scan.diffs) > 0

\* what calculatePDStats pushes to pdStats.comparisons for compare run i
Comparison(scan, i) ==
    IF Report(scan)
    THEN <<[run |-> i, meanRel |-> Mean(scan.diffs), meanAbs |-> Mean(scan.absDiffs)]>>
    ELSE <<>>

\* for (let i = 1; i < selectedRunsData.length; i++), counting runs from 1
RECURSIVE Comparisons(_, _, _)
Comparisons(runs, i, cpuType) ==
    IF i > Len(runs) THEN <<>>
    ELSE Comparison(Scan(Points(runs[1]), Points(runs[i]), cpuType), i)
            \o Comparisons(runs, i + 1, cpuType)

CpuTypes == {"total", "kernel", "user"}

\* calculatePDStats for one selected protection domain, under each CPU type
\* the user can pick; an empty list stands for the null it returns
calculatePDStats(runs) ==
    [c \in CpuTypes |-> IF Len(runs) < 2 THEN <<>> ELSE Comparisons(runs, 2, c)]

\* x.length > 0 ? mean of x : 0
MeanOrZero(seq) == IF Len(seq) > 0 THEN Mean(seq) ELSE Rat(0, 1)

\* the lines exportToPDF prints for compare run i: the three CPU types are
\* scanned together and the block is printed when totalDiffs is not empty
PdfComparison(baselinePoints, comparePoints, i) ==
    LET total == Scan(baselinePoints, comparePoints, "total")
        kernel == Scan(baselinePoints, comparePoints, "kernel")
        user == Scan(baselinePoints, comparePoints, "user")
    IN  IF Len(total.diffs) > 0
        THEN <<[run |-> i,
                meanTotalRel |-> Mean(total.diffs),
                meanTotalAbs |-> Mean(total.absDiffs),
                meanKernelRel |-> MeanOrZero(kernel.diffs),
                meanKernelAbs |-> Mean(kernel.absDiffs),
                meanUserRel |-> MeanOrZero(user.diffs),
                meanUserAbs |-> Mean(user.absDiffs)]>>
        ELSE <<>>

RECURSIVE PdfComparisons(_, _)
PdfComparisons(runs, i) ==
    IF i > Len(runs) THEN <<>>
    ELSE PdfComparison(Points(runs[1]), Points(runs[i]), i) \o PdfComparisons(runs, i + 1)

\* the "Relative Overhead vs Baseline" block of exportToPDF for one
\* protection domain
pdfPDStats(runs) == IF Len(runs) > 1 THEN PdfComparisons(runs, 2) ELSE <<>>

\* the loop of calculateCacheStats over j < minLength: samples are paired by
\* their index
RECURSIVE ByIndex(_, _, _, _)
ByIndex(scan, baselineData, compareData, j) ==
    IF j > Len(baselineData) \/ j > Len(compareData) THEN scan
    ELSE ByIndex([relDiffs |-> IF baselineData[j] > 0
                               THEN Append(scan.relDiffs,
                                           Rat((compareData[j] - baselineData[j]) * 100,
                                               baselineData[j]))
                               ELSE scan.relDiffs,
                  absDiffs |-> Append(scan.absDiffs,
                                      Rat(compareData[j] - baselineData[j], 1))],
                 baselineData, compareData, j + 1)

\* what calculateCacheStats pushes to metricStats.comparisons for compare run i
CacheComparison(baselineData, compareData, i) ==
    IF Len(baselineData) > 0 /\ Len(compareData) > 0
    THEN LET scan == ByIndex([relDiffs |-> <<>>, absDiffs |-> <<>>],
                             baselineData, compareData, 1)
         IN  <<[run |-> i,
                baselineAvg |-> Mean([j \in 1..Len(baselineData) |->
                                         Rat(baselineData[j], 1)]),
                compareAvg |-> Mean([j \in 1..Len(compareData) |->
                                        Rat(compareData[j], 1)]),
                relDiff |-> MeanOrZero(scan.relDiffs),
                absDiff |-> MeanOrZero(scan.absDiffs)]>>
    ELSE <<>>

RECURSIVE CacheComparisons(_, _)
CacheComparisons(runs, i) ==
    IF i > Len(runs) THEN <<>>
    ELSE CacheComparison(runs[1].pmu_data, runs[i].pmu_data, i)
            \o CacheComparisons(runs, i + 1)

\* calculateCacheStats for one selected metric
calculateCacheStats(runs) == IF Len(runs) < 2 THEN <<>> ELSE CacheComparisons(runs, 2)

----------------------------------------------------------------------------
(* SpecCmp: a custom plot with a baseline run and one comparison run       *)
(* selected; the page computes the statistics it shows, and the PDF export *)
(* computes its own from the same runs.                                    *)

\* Receive_Throughput of a CSV row, in bit/s: 10.0, 10.5 and 11.0 Mbps
BaseThroughputs == {10 * Scale, 10 * Scale + Scale \div 2}
CompareThroughputs == BaseThroughputs \cup {11 * Scale}

PD(total, kernel, user) ==
    [cpu_utilization |-> total, kernel_cpu_utilization |-> kernel,
     user_cpu_utilization |-> user]

\* the protection domain's utilisation in a test of the baseline run and of
\* the comparison run
BasePDs == {PD(0, 0, 0), PD(5, 0, 5), PD(10, 5, 5)}
ComparePDs == {PD(6, 1, 5), PD(9, 4, 5)}

\* benchmark runs for a CPU plot: a test for each sample and a CSV row for
\* each of them, or for all of them but the last (the two files of a run are
\* read separately and data and cpuData.tests need not be of the same length)
RunsOf(throughputs, pds) ==
    UNION {[data : [1..m -> throughputs], tests : [1..n -> pds]] :
              <<m, n>> \in {<<k, l>> \in (0..MaxPoints) \X (0..MaxPoints) :
                               k \in {l - 1, l}}}

\* cpuData.metadata.test_throughputs, in Mbps, and the count of a PMU event
Steps == {10, 11}
BaseCounts == {0, 5, 10}
CompareCounts == {6, 9}

\* benchmark runs for a cache plot: a declared step and a count for each sample
PmuRunsOf(counts) ==
    UNION {[test_throughputs : [1..n -> Steps], pmu_data : [1..n -> counts]] :
              n \in 0..MaxPoints}

NotComputed == [computed |-> FALSE]

InitCmp ==
    /\ storages = <<"FILE">>
    /\ dataDir = EmptyDir
    /\ docs = {}
    /\ client = Null
    /\ collection = Null
    /\ saved = {}
    /\ last = NoRequest
    /\ ConcIdle
    /\ ClientIdle
    /\ \/ \E b \in RunsOf(BaseThroughputs, BasePDs),
             c \in RunsOf(CompareThroughputs, ComparePDs) :
             cmp = [plotType |-> "pds", runs |-> <<b, c>>,
                    stats |-> NotComputed, pdf |-> NotComputed]
       \/ \E b \in PmuRunsOf(BaseCounts), c \in PmuRunsOf(CompareCounts) :
             cmp = [plotType |-> "cache", runs |-> <<b, c>>,
                    stats |-> NotComputed, pdf |-> NotComputed]

\* the page renders the statistics of a protection-domain plot
ShowPDStats ==
    /\ cmp.plotType = "pds"
    /\ cmp.stats = NotComputed
    /\ cmp' = [cmp EXCEPT !.stats =
                  [computed |-> TRUE,
                   baselinePoints |-> Points(cmp.runs[1]),
                   comparePoints |-> Points(cmp.runs[2]),
                   scan |-> [c \in CpuTypes |->
                               Scan(Points(cmp.runs[1]), Points(cmp.runs[2]), c)],
                   comparisons |-> calculatePDStats(cmp.runs)]]
    /\ UNCHANGED <<storages, dataDir, docs, client, collection, saved, last,
                   concVars, clientVars>>

\* the page renders the statistics of a cache plot
ShowCacheStats ==
    /\ cmp.plotType = "cache"
    /\ cmp.stats = NotComputed
    /\ cmp' = [cmp EXCEPT !.stats =
                  [computed |-> TRUE, comparisons |-> calculateCacheStats(cmp.runs)]]
    /\ UNCHANGED <<storages, dataDir, docs, client, collection, saved, last,
                   concVars, clientVars>>

\* the user exports the page that shows the protection-domain plot
ExportPdf ==
    /\ cmp.plotType = "pds"
    /\ cmp.stats # NotComputed
    /\ cmp.pdf = NotComputed
    /\ cmp' = [cmp EXCEPT !.pdf =
                  [computed |-> TRUE, comparisons |-> pdfPDStats(cmp.runs)]]
    /\ UNCHANGED <<storages, dataDir, docs, client, collection, saved, last,
                   concVars, clientVars>>

NextCmp == ShowPDStats \/ ShowCacheStats \/ ExportPdf

SpecCmp == InitCmp /\ [][NextCmp]_vars

----------------------------------------------------------------------------
(* Properties of the coordinator and the routes, under Spec *)

\* the store outcomes of the last request that fulfilled
FulfilledCalls == {i \in 1..Len(last.calls) : last.calls[i].out.status = "fulfilled"}

\* r holds every field the caller gave s a value for
Carries(r, s) == \A k \in DOMAIN s : s[k] # Undefined => Get(r, k) = s[k]

\* an object without the keys whose value is undefined or null
Defined(o) == [k \in {j \in DOMAIN o : o[j] \notin {Undefined, Null}} |-> o[k]]

\* a POST that reached DualStorage.saveSession
SaveHandled == last.op = "POST" /\ last.res.status = 200

\* C1: DualStorage.saveSession reports success exactly when the save of at
\* least one enabled store fulfilled: success if one or both fulfil, success =
\* false if every store's save throws.
C1_SaveSuccessIffOneFulfilled ==
    SaveHandled =>
        /\ Len(last.calls) = Len(storages)
        /\ last.ret.success = (FulfilledCalls # {})

\* C1 witness: two stores, one save threw, the other fulfilled, success reported
C1_Witness ==
    /\ SaveHandled
    /\ Len(last.calls) = 2
    /\ Cardinality(FulfilledCalls) = 1
    /\ last.ret.success

\* C2: with two stores enabled, a store that throws during a coordinator save
\* does not keep the other store's write from happening: after the save every
\* store whose save did not throw holds the saved record.
C2_FailureIsolation ==
    (SaveHandled /\ Len(storages) = 2) =>
        /\ Len(last.calls) = 2
        /\ \A i \in FulfilledCalls :
              /\ RecordsUnder(last.calls[i].name, State, last.id) # {}
              /\ \A r \in RecordsUnder(last.calls[i].name, State, last.id) :
                    Carries(r, last.session)

\* C2 witness: the primary (file) store threw and the secondary's save fulfilled
C2_Witness ==
    /\ SaveHandled
    /\ Len(storages) = 2
    /\ Len(last.calls) = 2
    /\ last.calls[1].out.status = "rejected"
    /\ last.calls[2].out.status = "fulfilled"
    /\ RecordsUnder("MONGO", State, last.id) # {}

\* the store reads are served from: the file store when it is enabled
ReadStore == IF Enabled("FILE") THEN "FILE" ELSE "MONGO"

\* C3: getAllSessions and getSession return what the first enabled store holds
\* (the file store when both are enabled, the database only when the file
\* store is disabled); no other store is called and no store's contents change.
C3_PrimaryReadPrecedence ==
    (last.op \in {"LIST", "LOAD"}) =>
        /\ ~last.changed
        /\ Len(last.calls) = 1
        /\ last.calls[1].name = ReadStore
        /\ (last.op = "LOAD" /\ last.res.status = 200) =>
              last.res.body \in RecordsUnder(ReadStore, State, last.id)
        /\ (last.op = "LOAD" /\ last.res.status = 404) =>
              RecordsUnder(ReadStore, State, last.id) = {}
        /\ (last.op = "LIST" /\ last.res.status = 200) =>
              /\ DOMAIN last.res.body = {i \in Ids : RecordsUnder(ReadStore, State, i) # {}}
              /\ \A i \in DOMAIN last.res.body :
                    last.res.body[i] \in RecordsUnder(ReadStore, State, i)

\* C3 witness: both stores enabled and holding different records under the id
\* that was read
C3_Witness ==
    /\ last.op = "LOAD"
    /\ last.res.status = 200
    /\ Len(storages) = 2
    /\ RecordsUnder("MONGO", State, last.id) # {}
    /\ RecordsUnder("FILE", State, last.id) # RecordsUnder("MONGO", State, last.id)

\* C4: DualStorage.deleteSession reports success if and only if at least one
\* enabled store confirms that it deleted the record; deleting an id no store
\* holds does not report success.
C4_DeleteSuccessIffConfirmed ==
    (last.op = "DELETE") =>
        (last.ret.success =
            (\E i \in FulfilledCalls : last.calls[i].out.value.success))

\* C5: DELETE /api/sessions/:id answers 404 whenever no session with that id
\* is stored, and answers success only when a stored session was removed.
C5_DeleteAnswers404WhenAbsent ==
    (last.op = "DELETE") =>
        /\ (last.stored = {}) => last.res.status = 404
        /\ (last.res.status = 200) => last.changed

----------------------------------------------------------------------------
(* Properties of a single store, under SpecStore *)

Store == storages[1]

\* a call of saveSession that fulfilled
SaveFulfilled == last.op = "saveSession" /\ last.out.status = "fulfilled"

\* C6: saving a session under an id that is already held, with another name,
\* leaves exactly one record under that id, and the record carries the fields
\* of the later save; this holds for the file store and for the database store.
C6_IdempotentUpsert ==
    SaveFulfilled =>
        /\ Cardinality(RecordsUnder(Store, State, last.id)) = 1
        /\ \A r \in RecordsUnder(Store, State, last.id) : Carries(r, last.session)

\* C6 witness: a second save of an id, with a name other than the held one
C6_Witness ==
    /\ SaveFulfilled
    /\ last.prev # NullResult
    /\ last.prev.name # last.session.name

\* C7: after save(s) on a store that already holds a record under s.id,
\* getOne(s.id) returns exactly the fields of s: nothing of the earlier record
\* survives, in the file store and in the database store alike.
C7_SaveFullyOverwrites ==
    (SaveFulfilled /\ last.prev # NullResult) =>
        \A g \in {StoreGet(Store, State, last.id, "none").out} :
            /\ g.status = "fulfilled"
            /\ Defined(g.value) = Defined(last.session)

\* the session files of the data directory, and those of them that parse
SessionFiles == {f \in DOMAIN dataDir : f.ext = "json"}
WellFormed == {f \in SessionFiles : dataDir[f].parses}

\* a listing by the file store that met no I/O error
FileListed ==
    last.op = "getAllSessions" /\ last.store = "FILE" /\ last.fault = "none"

\* C8: with unparsable .json files next to well-formed ones,
\* FileStorage.getAllSessions does not throw and returns every well-formed
\* record, leaving out only the unparsable ones.
C8_CorruptRecordResilience ==
    FileListed =>
        /\ last.out.status = "fulfilled"
        /\ \A f \in WellFormed :
              /\ JSONParse(dataDir[f]).id \in DOMAIN last.out.value
              /\ last.out.value[JSONParse(dataDir[f]).id] = JSONParse(dataDir[f])
        /\ \A i \in DOMAIN last.out.value :
              \E f \in WellFormed : JSONParse(dataDir[f]) = last.out.value[i]

\* C8 witness: a listing of a directory that holds an unparsable session file
\* and a well-formed one
C8_Witness ==
    /\ FileListed
    /\ WellFormed # {}
    /\ SessionFiles \ WellFormed # {}
    /\ DOMAIN last.out.value # {}

\* C9: after any sequence of saves and deletes on a store, getAll() returns a
\* mapping whose keys are exactly the ids saved and not deleted afterwards,
\* and each value is what getOne(id) returns.
C9_GetAllIsTheLiveSet ==
    \A all \in {StoreGetAll(Store, State, "none").out} :
        (all.status = "fulfilled") =>
            /\ DOMAIN all.value = saved
            /\ \A i \in saved :
                  \A g \in {StoreGet(Store, State, i, "none").out} :
                      g.status = "fulfilled" /\ g.value = all.value[i]

\* C9 witness: a saved record was deleted again
C9_Witness ==
    /\ last.op = "deleteSession"
    /\ last.out.status = "fulfilled"
    /\ last.out.value.success
    /\ last.prev # NullResult
    /\ last.id \notin saved

----------------------------------------------------------------------------
(* Claims about request validation and error answers, checked under Spec.  *)

\* C11: a POST whose body lacks id or name is answered 400 and never reaches
\* storage: no backend saveSession is invoked and the contents of every
\* backend are what they were before the request.
C11_InvalidBodyNeverReachesStorage ==
    [][(last'.op = "POST" /\ (last'.body.id = Undefined \/ last'.body.name = Undefined))
          => /\ last'.res.status = 400
             /\ last'.calls = <<>>
             /\ dataDir' = dataDir /\ docs' = docs]_vars

\* a 400 was answered for a body that has a name but no id, after a session
\* had been stored
C11_Witness ==
    /\ last.op = "POST" /\ last.res.status = 400
    /\ last.body.id = Undefined /\ last.body.name # Undefined
    /\ last.calls = <<>>
    /\ (dataDir # EmptyDir \/ docs # {})

\* the request called the database store and the connection attempt failed
ConnectionFailed ==
    /\ last.calls # <<>>
    /\ \A i \in 1..Len(last.calls) :
           /\ last.calls[i].name = "MONGO"
           /\ last.calls[i].out = Rejected("MongoNetworkError")

\* C12: with the database store as the only enabled store and the database
\* unreachable, each of save, list, get-one and delete is answered 500.
C12_ConnectionErrorAnswers500 ==
    (storages = <<"MONGO">> /\ last.op # "none" /\ ConnectionFailed)
        => last.res.status = 500

----------------------------------------------------------------------------
(* Claims about concurrent requests, checked under SpecConc.               *)

\* C13: last write wins without mixing.  Whatever the interleaving of the
\* saves in flight, the record a store holds under an id is exactly the
\* document of the save that reached that store last: its defined fields
\* and no field of an earlier save.
C13_LastWriteWinsWithoutMixing ==
    \A n \in StoreNames, id \in Ids :
        (Enabled(n) /\ written[n][id] # NullResult)
            => {Defined(x) : x \in RecordsUnder(n, State, id)}
                   = {Defined(written[n][id])}

\* two saves of one id are in flight together and the database has applied
\* both; the one applied last leaves runs out, the other one carried it
C13_Witness ==
    /\ pending["req1"].op = "POST" /\ pending["req2"].op = "POST"
    /\ pending["req1"].mongoOut.status = "fulfilled"
    /\ pending["req2"].mongoOut.status = "fulfilled"
    /\ pending["req1"].session.id = pending["req2"].session.id
    /\ pending["req1"].session.runs = Undefined
    /\ pending["req2"].session.runs # Undefined
    /\ pending["req1"].session.name # pending["req2"].session.name
    /\ written["MONGO"][pending["req1"].session.id] = pending["req1"].session

----------------------------------------------------------------------------
(* Claims about timestamps, checked under SpecClient.                      *)

\* the session records store n holds
Held(n) ==
    IF n = "FILE"
    THEN {JSONParse(dataDir[f]) :
            f \in {g \in DOMAIN dataDir : g.ext = "json" /\ dataDir[g].parses}}
    ELSE {StripId(d) : d \in docs}

\* C14: every session record held by a store has updatedAt >= createdAt,
\* after any sequence of POST requests (with or without timestamps of their
\* own) and of create, rename, duplicate and autosave on the page.
C14_UpdatedNotBeforeCreated ==
    \A n \in StoreNames :
        Enabled(n) =>
            \A rec \in Held(n) :
                TimeIndex(rec.updatedAt) >= TimeIndex(rec.createdAt)

----------------------------------------------------------------------------
(* Claims about the comparison statistics, checked under SpecCmp.  The     *)
(* definitions below state the matching rule on the two lists of points,   *)
(* without the scan.                                                       *)

\* the page shows the statistics of a protection-domain plot
Shown == cmp.plotType = "pds" /\ cmp.stats # NotComputed

BasePts == cmp.stats.baselinePoints
ComparePts == cmp.stats.comparePoints

\* the throughput distance, in bit/s, of baseline point i and comparison point j
Dist(i, j) == AbsDiff(BasePts[i].throughput, ComparePts[j].throughput)

\* the first comparison point among those nearest to baseline point i
Nearest(i) ==
    CHOOSE j \in 1..Len(ComparePts) :
        /\ \A k \in 1..Len(ComparePts) : Dist(i, j) <= Dist(i, k)
        /\ \A k \in 1..(j - 1) : Dist(i, k) > Dist(i, j)

\* baseline point i has a comparison point less than 1.0 Mbps away
Within(i) == ComparePts # <<>> /\ Dist(i, Nearest(i)) < Tolerance * Scale

Matches == {i \in 1..Len(BasePts) : Within(i)}

\* the matched baseline points with a baseline value above 0
Positive(c) == {i \in Matches : BasePts[i][c] > 0}

\* C15: a baseline point is matched only if its nearest comparison point is
\* strictly less than 1.0 Mbps away; at exactly 1.0 Mbps or farther it is
\* not matched and adds nothing to the relative or the absolute differences.
C15_ToleranceIsStrict ==
    Shown =>
        \A c \in CpuTypes :
            /\ \A i \in 1..Len(BasePts) : cmp.stats.scan[c].matched[i] <=> Within(i)
            /\ Len(cmp.stats.scan[c].absDiffs) = Cardinality(Matches)
            /\ Len(cmp.stats.scan[c].diffs) = Cardinality(Positive(c))

\* one baseline point has its nearest comparison point exactly 1.0 Mbps away
\* and is not matched, another one is matched at a distance of 0.5 Mbps
C15_Witness ==
    /\ Shown
    /\ \E i, k \in 1..Len(BasePts) :
          /\ ComparePts # <<>>
          /\ Dist(i, Nearest(i)) = Tolerance * Scale
          /\ ~cmp.stats.scan["total"].matched[i]
          /\ Dist(k, Nearest(k)) = Scale \div 2
          /\ cmp.stats.scan["total"].matched[k]
          /\ Len(cmp.stats.scan["total"].absDiffs) = 1

\* C16: for every baseline point and non-empty comparison list the scan
\* selects a comparison point at the minimum throughput distance, and among
\* several at that distance the one that comes first in the list.
C16_NearestFirstSeen ==
    (Shown /\ ComparePts # <<>>) =>
        \A c \in CpuTypes, i \in 1..Len(BasePts) :
            cmp.stats.scan[c].closest[i] = ComparePts[Nearest(i)]

\* two different comparison points are equally near to a baseline point and
\* the first of them was selected
C16_Witness ==
    /\ Shown
    /\ \E i \in 1..Len(BasePts) :
          /\ Len(ComparePts) = 2
          /\ Dist(i, 1) = Dist(i, 2)
          /\ ComparePts[1] # ComparePts[2]
          /\ cmp.stats.scan["total"].closest[i] = ComparePts[1]

\* the sum and the product of the values of a function with a finite domain
RECURSIVE SumOver(_)
SumOver(f) ==
    IF DOMAIN f = {} THEN 0
    ELSE LET i == CHOOSE i \in DOMAIN f : TRUE
         IN  f[i] + SumOver([k \in DOMAIN f \ {i} |-> f[k]])

RECURSIVE ProductOver(_)
ProductOver(f) ==
    IF DOMAIN f = {} THEN 1
    ELSE LET i == CHOOSE i \in DOMAIN f : TRUE
         IN  f[i] * ProductOver([k \in DOMAIN f \ {i} |-> f[k]])

\* the value, under CPU type c, of the comparison point matched to baseline
\* point i
MatchVal(i, c) == ComparePts[Nearest(i)][c]

\* x is the mean over the matched points of compare - baseline
IsMeanAbs(x, c) ==
    x.num * Cardinality(Matches)
        = x.den * SumOver([i \in Matches |-> MatchVal(i, c) - BasePts[i][c]])

\* x is the mean, over the matched points with baseline > 0, of
\* (compare - baseline) / baseline * 100: both sides are multiplied by the
\* number of those points and by the product of their baseline values
IsMeanRel(x, c) ==
    x.num * Cardinality(Positive(c)) * ProductOver([i \in Positive(c) |-> BasePts[i][c]])
        = x.den * SumOver([i \in Positive(c) |->
                             100 * (MatchVal(i, c) - BasePts[i][c])
                                 * ProductOver([k \in Positive(c) \ {i} |->
                                                   BasePts[k][c]])])

\* C17: a matched pair whose baseline value is 0 is left out of the relative
\* mean but its absolute difference is part of the reported absolute mean,
\* also when every matched pair of the run has baseline value 0.
C17_ZeroBaselineStillInAbsoluteMean ==
    Shown =>
        \A c \in CpuTypes :
            (\E i \in Matches : BasePts[i][c] = 0) =>
                /\ cmp.stats.comparisons[c] # <<>>
                /\ IsMeanAbs(cmp.stats.comparisons[c][1].meanAbs, c)

\* C18: the comparison run is left out of the output if no baseline point was
\* matched, and is reported, with the mean absolute difference over all
\* matched points, whenever at least one was.
C18_ReportedIffMatched ==
    Shown =>
        \A c \in CpuTypes :
            /\ (cmp.stats.comparisons[c] = <<>>) <=> (Matches = {})
            /\ cmp.stats.comparisons[c] # <<>>
                   => IsMeanAbs(cmp.stats.comparisons[c][1].meanAbs, c)

\* C19: the reported relative difference is the mean of the per-pair values
\* (compare - baseline) / baseline * 100 over the matched pairs with
\* baseline > 0, not the quotient of the means.
C19_MeanOfRatios ==
    Shown =>
        \A c \in CpuTypes :
            cmp.stats.comparisons[c] # <<>>
                => IsMeanRel(cmp.stats.comparisons[c][1].meanRel, c)

\* the matched pairs are (5, 6) and (10, 9), whose sums are equal, and the
\* reported relative difference is +5%
C19_Witness ==
    /\ Shown
    /\ Matches = {1, 2}
    /\ BasePts[1].total = 5 /\ MatchVal(1, "total") = 6
    /\ BasePts[2].total = 10 /\ MatchVal(2, "total") = 9
    /\ cmp.stats.comparisons["total"] # <<>>
    /\ cmp.stats.comparisons["total"][1].meanRel = Rat(5, 1)

\* the points the matching procedure would work on for a cache plot: a PMU
\* sample at its declared throughput step
PmuPoints(run) ==
    [j \in 1..Len(run.pmu_data) |->
        [throughput |-> run.test_throughputs[j] * Scale, count |-> run.pmu_data[j]]]

\* C20: the cache comparison is the matching-and-averaging procedure of the
\* protection-domain comparison applied to the PMU samples at their declared
\* throughput steps: same runs reported, same mean differences.
C20_CacheUsesSharedProcedure ==
    (cmp.plotType = "cache" /\ cmp.stats # NotComputed) =>
        \E shared \in {Comparison(Scan(PmuPoints(cmp.runs[1]), PmuPoints(cmp.runs[2]),
                                       "count"), 2)} :
            /\ Len(cmp.stats.comparisons) = Len(shared)
            /\ shared # <<>> =>
                  /\ cmp.stats.comparisons[1].relDiff = shared[1].meanRel
                  /\ cmp.stats.comparisons[1].absDiff = shared[1].meanAbs

\* the page shows the statistics and the PDF export of the same plot was made
Exported == Shown /\ cmp.pdf # NotComputed

\* the name of the field of a printed block that holds the relative, and the
\* absolute, mean of a CPU type
RelField(c) == IF c = "total" THEN "meanTotalRel"
               ELSE IF c = "kernel" THEN "meanKernelRel" ELSE "meanUserRel"
AbsField(c) == IF c = "total" THEN "meanTotalAbs"
               ELSE IF c = "kernel" THEN "meanKernelAbs" ELSE "meanUserAbs"

\* what the PDF export reports for CPU type c: the runs it prints a block for
\* and the two means on the line of that CPU type
PdfFor(c) ==
    [k \in 1..Len(cmp.pdf.comparisons) |->
        [run |-> cmp.pdf.comparisons[k].run,
         meanRel |-> cmp.pdf.comparisons[k][RelField(c)],
         meanAbs |-> cmp.pdf.comparisons[k][AbsField(c)]]]

\* C21: for the same ordered runs, protection domain and CPU type the
\* statistics on the page and the PDF export report the same comparison runs
\* and the same mean relative and mean absolute differences.
C21_ScreenAndPdfAgree ==
    Exported => \A c \in CpuTypes : cmp.stats.comparisons[c] = PdfFor(c)

\* the tests of a run that have no CSV row (every test of the runs drawn has
\* the protection domain, so point i of a run comes from its test i)
Orphans(run) == {i \in 1..Len(run.tests) : i > Len(run.data)}

\* C22: when data and cpuData.tests of a run differ in length, a CPU sample
\* without a CSV row is dropped from the comparison: it is not among the
\* points and is never matched with a point of the other run.
C22_SampleWithoutRowIsDropped ==
    Shown =>
        /\ Len(BasePts) = Len(cmp.runs[1].tests) - Cardinality(Orphans(cmp.runs[1]))
        /\ Len(ComparePts) = Len(cmp.runs[2].tests) - Cardinality(Orphans(cmp.runs[2]))
        /\ \A i \in 1..Len(BasePts) :
              cmp.stats.scan["total"].matched[i] =>
                  /\ i \notin Orphans(cmp.runs[1])
                  /\ Nearest(i) \notin Orphans(cmp.runs[2])

----------------------------------------------------------------------------
(* Claims about the coordinator's fan-out, checked under SpecConc.         *)

\* the promise of store n's call in the slot p of a request
OutOf(p, n) == IF n = "FILE" THEN p.fileOut ELSE p.mongoOut

Done == {"fulfilled", "rejected"}

\* C23: a coordinator save or delete invokes the operation exactly once on
\* each enabled store, all of them when it starts and none later or again,
\* and returns only after every one of these calls has settled; the stores
\* are written only on behalf of a request that has not been answered.
C23_FanOutOnceAndAwaited ==
    [][/\ \A r \in Reqs, n \in StoreNames :
            /\ (~pending[r].busy /\ pending'[r].busy) =>
                  ((OutOf(pending'[r], n) # NotCalled) <=> Enabled(n))
            /\ (pending[r].busy /\ pending'[r].busy
                  /\ OutOf(pending[r], n).status # "pending") =>
                  OutOf(pending'[r], n) = OutOf(pending[r], n)
            /\ (pending[r].busy /\ ~pending'[r].busy /\ Enabled(n)) =>
                  OutOf(pending[r], n).status \in Done
       /\ (dataDir' # dataDir \/ docs' # docs) =>
            \E r \in Reqs, n \in StoreNames :
                /\ pending'[r].busy
                /\ OutOf(pending'[r], n).status \in Done
                /\ OutOf(pending[r], n).status \notin Done]_vars

\* both stores are enabled, the file store's delete threw at once, the
\* database's delete was applied later, and the request is about to be answered
C23_Witness ==
    /\ Len(storages) = 2
    /\ \E r \in Reqs :
          /\ pending[r].op = "DELETE"
          /\ pending[r].fileOut.status = "rejected"
          /\ pending[r].mongoOut = Fulfilled([success |-> TRUE])
          /\ AllSettled(r)

----------------------------------------------------------------------------
(* Claims about reads after writes and about the database connection,      *)
(* checked under Spec.                                                     *)

\* C24: whenever DualStorage.saveSession(s) has returned success = true, a
\* getSession(s.id) that follows at once returns s and getAllSessions() holds
\* s under s.id, also when one of the two stores failed during the save.
C24_ReadYourWrites ==
    (SaveHandled /\ last.ret.success) =>
        \E g \in {DualGetSession(storages, State, last.id, NoFaults).out},
           all \in {DualGetAllSessions(storages, State, NoFaults).out} :
            /\ g.status = "fulfilled"
            /\ g.value # NullResult
            /\ Defined(g.value) = Defined(last.session)
            /\ all.status = "fulfilled"
            /\ last.id \in DOMAIN all.value
            /\ Defined(all.value[last.id]) = Defined(last.session)

----------------------------------------------------------------------------
(* Claims about the database connection under concurrent requests,         *)
(* checked under SpecConc.                                                 *)

\* the database call of request r ran against this.collection = null
UsedNullCollection(r) == pending[r].mongoOut = Rejected("TypeError")

\* C25: MongoStorage never uses its collection before the connection is
\* established: while the first operation is connecting, a second operation
\* waits for the connection or connects itself, and does not run against a
\* null collection.
C25_NoUseBeforeConnected ==
    \A r1, r2 \in Reqs :
        (r1 # r2 /\ pending[r1].mongoStep = "connecting") => ~UsedNullCollection(r2)

----------------------------------------------------------------------------
(* Claims about the database connection of one store, checked under        *)
(* SpecStore.                                                              *)

\* C26: a failed connection attempt fails only the operation that triggered
\* it: an operation of MongoStorage issued while the database is reachable
\* connects (again, if an earlier attempt failed) and succeeds.
C26_ReconnectsAfterFailedAttempt ==
    (Store = "MONGO" /\ last.op # "none" /\ last.fault = "none")
        => last.out.status = "fulfilled"

----------------------------------------------------------------------------
(* Claims about the agreement of the two stores, checked under SpecConc.   *)

\* the save of request r was carried out by both stores
SavedByBoth(r) ==
    /\ pending[r].op = "POST"
    /\ pending[r].fileOut.status = "fulfilled"
    /\ pending[r].mongoOut.status = "fulfilled"

\* the records store n holds under id, without their undefined or null fields
RecordsOf(n, id) == {Defined(x) : x \in RecordsUnder(n, State, id)}

\* C27: with both stores enabled and no store failure, once the coordinator
\* saves of one session id, overlapping in time or not, have completed, the
\* file store and the database hold the same record under that id.
C27_StoresAgreeAfterSaves ==
    \A r1, r2 \in Reqs :
        (/\ Len(storages) = 2
         /\ r1 # r2
         /\ SavedByBoth(r1) /\ SavedByBoth(r2)
         /\ pending[r1].session.id = pending[r2].session.id)
            => RecordsOf("FILE", pending[r1].session.id)
                   = RecordsOf("MONGO", pending[r1].session.id)

----------------------------------------------------------------------------
(* Claims about the repair of diverged stores, checked under Spec.         *)

\* C28: divergence is repaired by the next full save.  Whatever the two
\* stores held under an id before, in particular after a save that succeeded
\* on one of them and failed on the other, a coordinator save of that id
\* that succeeds on both leaves both holding exactly the document saved.
C28_NextFullSaveRepairs ==
    (SaveHandled /\ Len(storages) = 2 /\ Cardinality(FulfilledCalls) = 2) =>
        \A n \in StoreNames : RecordsOf(n, last.id) = {Defined(last.session)}

\* the save succeeded on both stores when the database alone held a record
\* under the id, and that record had another name than the one saved now
C28_Witness ==
    /\ SaveHandled
    /\ Len(storages) = 2
    /\ Cardinality(FulfilledCalls) = 2
    /\ last.stored = {"MONGO"}
    /\ RecordsOf("FILE", last.id) = RecordsOf("MONGO", last.id)
    /\ last.session.name = NamePool[2]
    /\ last.session.runs = Undefined

----------------------------------------------------------------------------
(* Claims about the session list of the page, checked under SpecClient.    *)

\* C29: once sessions have been loaded or created, under any sequence of
\* createNewSession, switchSession, renameSession, duplicateSession and
\* deleteSession, currentSessionId is a key of the sessions map, and
\* deleteSession never removes the last remaining session.
C29_SessionStateWellFormed ==
    [][/\ DOMAIN sessions' # {} => currentSessionId' \in DOMAIN sessions'
       /\ DOMAIN sessions # {} => DOMAIN sessions' # {}]_vars

\* the user deleted the current session, another session became the current
\* one and is the only one left
C29_Witness ==
    /\ deleted # {}
    /\ Cardinality(DOMAIN sessions) = 1
    /\ currentSessionId \in DOMAIN sessions
    /\ \A id \in deleted : id \notin DOMAIN sessions
    /\ \E q \in inflight : q.op = "DELETE"

\* C30: a deleted session does not come back.  After deleteSession(X) on the
\* page, once the server has handled every request the page had in flight,
\* in whatever order they arrived, the primary store holds no record under X.
C30_DeletedStaysDeleted ==
    (inflight = {}) =>
        \A id \in deleted : ~Present(Primary(storages), State, id)

====
